---- MODULE Spec2Model ----
(***************************************************************************)
(* Client-side behaviour of js/forms.js: field validation, the generic     *)
(* submit handler, the notification toast and its timers, and debounce.    *)
(*                                                                         *)
(* Strings are sequences of one-character strings.  Time is counted in     *)
(* units of 100 ms (the greatest common divisor of the delays the form,    *)
(* the notifications and the newsletter pass to setTimeout), and every     *)
(* timer carries the time left until it is due.  debounce is modelled for  *)
(* every wait up to a bound, in units of its own.                          *)
(***************************************************************************)
EXTENDS Integers, Sequences, FiniteSets, TLC

(* ------------------------------ characters ----------------------------- *)

\* \s of the regular expressions and the characters String.trim() strips
Whitespace == {" ", "\t", "\n"}

\* \d of the regular expressions
Digit == {"0", "1", "2", "3", "4", "5", "6", "7", "8", "9"}

DigitValue(c) ==
  CASE c = "0" -> 0 [] c = "1" -> 1 [] c = "2" -> 2 [] c = "3" -> 3 [] c = "4" -> 4
    [] c = "5" -> 5 [] c = "6" -> 6 [] c = "7" -> 7 [] c = "8" -> 8 [] c = "9" -> 9

\* the character class [\d\s\+\-\(\)] of validatePhone
PhoneChar == Digit \cup Whitespace \cup {"+", "-", "(", ")"}

\* the character class [^\s@] of validateEmail
EmailChar(c) == c \notin Whitespace /\ c # "@"

\* [^\s@]+ matched against s[lo..hi] (the caller keeps the range non-empty)
emailChars(s, lo, hi) == \A k \in lo..hi : EmailChar(s[k])

RECURSIVE trimStart(_)
trimStart(s) ==
  IF s # <<>> /\ Head(s) \in Whitespace THEN trimStart(Tail(s)) ELSE s

RECURSIVE trimEnd(_)
trimEnd(s) ==
  IF s # <<>> /\ s[Len(s)] \in Whitespace
    THEN trimEnd(SubSeq(s, 1, Len(s) - 1))
    ELSE s

\* mutant: the value is used as typed
trimNone(s) == s

\* String.prototype.trim
trim(s) == trimEnd(trimStart(s))

(* ------------------------------ validators ----------------------------- *)

\* mutant: the pattern without its \. and what follows it
validateEmailNoDot(email) ==
  \E i \in 1..Len(email) :
    /\ 1 < i /\ i < Len(email)
    /\ email[i] = "@"
    /\ emailChars(email, 1, i - 1)
    /\ emailChars(email, i + 1, Len(email))

\* /^[^\s@]+@[^\s@]+\.[^\s@]+$/.test(email)
validateEmail(email) ==
  \E i \in 1..Len(email) : \E j \in 1..Len(email) :
    /\ 1 < i /\ i + 1 < j /\ j < Len(email)
    /\ email[i] = "@"
    /\ email[j] = "."
    /\ emailChars(email, 1, i - 1)
    /\ emailChars(email, i + 1, j - 1)
    /\ emailChars(email, j + 1, Len(email))

\* mutant: nothing is stripped, so every character counts as a digit
stripNonDigitsNone(phone) == phone

\* phone.replace(/\D/g, '')
stripNonDigits(phone) == SelectSeq(phone, LAMBDA c : c \in Digit)

\* the threshold of validatePhone
MinPhoneDigits == 7

validatePhone(phone) ==
  /\ Len(phone) >= 1
  /\ \A k \in 1..Len(phone) : phone[k] \in PhoneChar
  /\ Len(stripNonDigits(phone)) >= MinPhoneDigits

RECURSIVE digitsPrefix(_)
digitsPrefix(s) ==
  IF s # <<>> /\ Head(s) \in Digit THEN <<Head(s)>> \o digitsPrefix(Tail(s)) ELSE <<>>

RECURSIVE decimal(_)
decimal(ds) ==
  IF ds = <<>> THEN 0 ELSE 10 * decimal(SubSeq(ds, 1, Len(ds) - 1)) + DigitValue(ds[Len(ds)])

\* parseInt(string): leading white space, an optional sign, then the longest
\* run of decimal digits; NaN when there is no digit
parseInt(str) ==
  LET s    == trimStart(str)
      neg  == s # <<>> /\ Head(s) = "-"
      body == IF s # <<>> /\ Head(s) \in {"+", "-"} THEN Tail(s) ELSE s
      ds   == digitsPrefix(body)
  IN  IF ds = <<>> THEN [nan |-> TRUE, n |-> 0]
      ELSE [nan |-> FALSE, n |-> IF neg THEN 0 - decimal(ds) ELSE decimal(ds)]

\* mutant: a comparison with NaN counts as true
lengthBelowNaN(len, minLength) == minLength.nan \/ len < minLength.n

\* value.length < minLength, false when minLength is NaN
lengthBelow(len, minLength) == ~minLength.nan /\ len < minLength.n

(* -------------------------------- bounds -------------------------------- *)

\* calls of showNotification in one run; the k-th call creates element k
MaxShows == 2

\* the user is observed once every Pace units of time (and whenever a timer
\* is due)
Pace == 10

\* the longest wait tried with debounce, in units of time, and the number
\* of calls of the debounced function in one run
MaxWait == 3
MaxCalls == 4

\* the largest maxLength given to addCharacterCounter
MaxCounterLength == 52

\* the longest value tried in an email field, a telephone field, a text field
MaxEmailLen == 5
MaxPhoneLen == 7
MaxTextLen == 3

(* ------------------------------- the page ------------------------------ *)

\* the fields of the form registered with handleFormSubmission, in document
\* order (the order of form.querySelectorAll('input, textarea, select'))
Fields == <<"nombre", "email">>

FieldNames == {Fields[k] : k \in 1..Len(Fields)}

\* field.type
fieldType == [f \in FieldNames |-> IF f = "email" THEN "email" ELSE "text"]

\* field.hasAttribute('required')
isRequired == [f \in FieldNames |-> TRUE]

\* field.hasAttribute('minlength')
hasMinlength == [f \in FieldNames |-> f = "nombre"]

\* field.getAttribute('minlength')
minlengthAttr == [f \in FieldNames |-> <<"2">>]

\* the value a field has in the markup, which form.reset() restores
defaultValue == [f \in FieldNames |-> <<>>]

\* what the user may type into a field
Typed ==
  [f \in FieldNames |->
     IF f = "email" THEN {<<>>, <<"a", "@", "b", ".", "c">>}
     ELSE {<<>>, <<" ">>, <<"a", "b">>}]

\* the elements that can be field.parentElement
Parents == {"group1", "group2"}

\* each field in a group of its own
OwnGroups == [f \in FieldNames |-> IF f = "nombre" THEN "group1" ELSE "group2"]

\* both fields children of one element
SharedGroup == [f \in FieldNames |-> "group1"]

Layouts == {OwnGroups, SharedGroup}

\* the label of the submit button in the markup
OriginalLabel == "Enviar"

BusyLabel == "<i class='fas fa-spinner fa-spin'></i> Enviando..."

MsgRequired == <<"Este campo es obligatorio">>
MsgEmail == <<"Por favor ingresa un email valido">>
MsgPhone == <<"Por favor ingresa un telefono valido">>
MsgMinLength(n) == <<"Minimo", n, "caracteres requeridos">>

MsgCorrect == "Por favor corrige los errores en el formulario"
MsgDefaultSuccess == "Formulario enviado exitosamente!"
MsgRetry == "Hubo un error al enviar el formulario. Por favor intenta nuevamente."
MsgSubscribed == "Gracias por suscribirte!"

\* delays passed to setTimeout, in units of 100 ms
TransmitDelay == 20
FormDismissDelay == 50
PageDismissDelay == 30
ExitDelay == 3
NewsletterDelay == 30

VARIABLES
  value,        \* field.value of every field
  parentOf,     \* field.parentElement of every field
  errors,       \* the .field-error children of every parent, in document order
  border,       \* field.style.borderColor of every field
  btn,          \* the submit button: innerHTML and disabled
  pending,      \* the submit handlers suspended at the await
  binding,      \* which declaration of showNotification the name is bound to
  body,         \* the notification elements attached to document.body
  timers,       \* the pending timers of the notifications
  shown,        \* the number of showNotification calls so far
  nlButton,     \* innerHTML of the newsletter button
  nlTimers,     \* the pending restore timers of the newsletter handler
  outcome,      \* how the last completed submission ended
  invoked,      \* the calls of onSuccess made by the last step
  probe,        \* the field a validator is applied to on its own
  verdict,      \* what the validator applied to probe returned
  wait,         \* the wait argument of debounce, in units of time
  timeout,      \* the variable timeout of debounce: the id of the last timer
  later,        \* the pending timers set by the debounced function
  calls,        \* the number of calls of the debounced function so far
  since,        \* the time since its last call, counted up to wait + 1
  lastArgs,     \* the argument of its last call
  owed,         \* it was called after func ran last
  ran,          \* the calls of func made by the last step
  runs,         \* the number of calls of func so far
  active,       \* navLinks.classList.contains('active')
  spans,        \* the inline styles of the three spans of the menu toggle
  innerWidth,   \* window.innerWidth
  maxLength,    \* the maxLength argument of addCharacterCounter
  text,         \* textarea.value
  counter       \* the counter element: its textContent and style.color

vars ==
  <<value, parentOf, errors, border, btn, pending, binding, body, timers, shown,
    nlButton, nlTimers, outcome, invoked, probe, verdict,
    wait, timeout, later, calls, since, lastArgs, owed, ran, runs,
    active, spans, innerWidth, maxLength, text, counter>>

formVars == <<value, parentOf, errors, border, btn, pending>>
notifVars == <<binding, body, timers, shown>>
nlVars == <<nlButton, nlTimers>>
checkVars == <<probe, verdict>>
debounceVars == <<wait, timeout, later, calls, since, lastArgs, owed, ran, runs>>

\* what the form, the notifications and the newsletter never touch
menuVars == <<active, spans, innerWidth>>
counterVars == <<maxLength, text, counter>>
otherVars == <<checkVars, debounceVars, menuVars, counterVars>>

(* ----------------------------- field errors ---------------------------- *)

\* mutant: the selector matches nothing, so nothing is removed
removeFieldErrorNone(children) == children

\* parent.querySelector('.field-error') and, if it finds one, .remove()
removeFieldError(children) ==
  IF children # <<>> THEN Tail(children) ELSE children

\* dom is the record [errors, border]
clearFieldError(dom, f) ==
  [errors |-> [dom.errors EXCEPT ![parentOf[f]] = removeFieldError(@)],
   border |-> [dom.border EXCEPT ![f] = ""]]

showFieldError(dom, f, message) ==
  [errors |-> [dom.errors EXCEPT ![parentOf[f]] =
                 Append(removeFieldError(@), message)],
   border |-> [dom.border EXCEPT ![f] = "#ef4444"]]

\* mutant: the minimum length is checked before the required check
checkFieldMinFirst(field) ==
  LET v         == trim(field.value)
      minLength == parseInt(field.minlength)
  IN  IF field.hasMinlength /\ lengthBelow(Len(v), minLength)
        THEN [isValid |-> FALSE, errorMessage |-> MsgMinLength(minLength.n)]
      ELSE IF field.required /\ v = <<>>
        THEN [isValid |-> FALSE, errorMessage |-> MsgRequired]
      ELSE IF field.type = "email" /\ v # <<>> /\ ~validateEmail(v)
        THEN [isValid |-> FALSE, errorMessage |-> MsgEmail]
      ELSE IF field.type = "tel" /\ v # <<>> /\ ~validatePhone(v)
        THEN [isValid |-> FALSE, errorMessage |-> MsgPhone]
      ELSE [isValid |-> TRUE, errorMessage |-> <<>>]

\* the checks of validateField, each with an early return: what the
\* function returns and the message it passes to showFieldError.  field is
\* the record [value, type, required, hasMinlength, minlength] of what the
\* function reads from the element.
checkField(field) ==
  LET v         == trim(field.value)
      minLength == parseInt(field.minlength)
  IN  IF field.required /\ v = <<>>
        THEN [isValid |-> FALSE, errorMessage |-> MsgRequired]
      ELSE IF field.type = "email" /\ v # <<>> /\ ~validateEmail(v)
        THEN [isValid |-> FALSE, errorMessage |-> MsgEmail]
      ELSE IF field.type = "tel" /\ v # <<>> /\ ~validatePhone(v)
        THEN [isValid |-> FALSE, errorMessage |-> MsgPhone]
      ELSE IF field.hasMinlength /\ lengthBelow(Len(v), minLength)
        THEN [isValid |-> FALSE, errorMessage |-> MsgMinLength(minLength.n)]
      ELSE [isValid |-> TRUE, errorMessage |-> <<>>]

\* what validateField reads from field f of the form
element(f) ==
  [value        |-> value[f],
   type         |-> fieldType[f],
   required     |-> isRequired[f],
   hasMinlength |-> hasMinlength[f],
   minlength    |-> minlengthAttr[f]]

\* the result and the effect of validateField(field)
validateField(dom, f) ==
  LET c       == checkField(element(f))
      cleared == clearFieldError(dom, f)
  IN  IF ~c.isValid
        THEN [valid |-> FALSE, dom |-> showFieldError(cleared, f, c.errorMessage)]
        ELSE [valid |-> TRUE, dom |-> cleared]

\* mutant: isValid = validateField(input), so the last field decides
RECURSIVE validateAllLast(_, _, _)
validateAllLast(dom, k, isValid) ==
  IF k > Len(Fields) THEN [valid |-> isValid, dom |-> dom]
  ELSE LET r == validateField(dom, Fields[k])
       IN  validateAllLast(r.dom, k + 1, r.valid)

\* inputs.forEach(input => { if (!validateField(input)) isValid = false; })
RECURSIVE validateAll(_, _, _)
validateAll(dom, k, isValid) ==
  IF k > Len(Fields) THEN [valid |-> isValid, dom |-> dom]
  ELSE LET r == validateField(dom, Fields[k])
       IN  validateAll(r.dom, k + 1, isValid /\ r.valid)

(* ----------------------------- notifications --------------------------- *)

NotifIds == 1..MaxShows

\* n is the record [body, timers, shown]
canShow(n) == n.shown < MaxShows

notifs == [body |-> body, timers |-> timers, shown |-> shown]

\* The file declares showNotification twice (lines 180 and 516).  Every call
\* goes through the one global name, so one declaration serves all call sites
\* of a run: the later one when the file is loaded as one script, the earlier
\* one ("forms") when the form utilities are loaded after the page script.
\* the class the bound declaration gives its element and looks for
notifClass == IF binding = "forms" THEN "form-notification" ELSE "notification"

dismissDelay == IF binding = "forms" THEN FormDismissDelay ELSE PageDismissDelay

\* mutant: the existing notification is left in the document
removeNone(els, cls) == els

\* document.querySelector(selector) and, if it finds one, .remove()
RECURSIVE removeFirst(_, _)
removeFirst(els, cls) ==
  IF els = <<>> THEN <<>>
  ELSE IF Head(els).cls = cls THEN Tail(els)
  ELSE <<Head(els)>> \o removeFirst(Tail(els), cls)

\* element.remove() of one particular element
detach(els, id) == SelectSeq(els, LAMBDA e : e.id # id)

attached(els, id) == \E k \in 1..Len(els) : els[k].id = id

\* notification.style.animation = 'slideOutRight 0.3s ease'; byUser records
\* that the close button did it
startExit(els, id, byUser) ==
  [k \in 1..Len(els) |->
     IF els[k].id = id
       THEN [els[k] EXCEPT !.exiting = TRUE, !.closed = @ \/ byUser]
       ELSE els[k]]

iconOf(type) ==
  IF binding = "forms"
    THEN CASE type = "success" -> "check-circle"
           [] type = "error" -> "exclamation-circle"
           [] type = "info" -> "info-circle"
           [] type = "warning" -> "exclamation-triangle"
    ELSE IF type = "success" THEN "check-circle" ELSE "info-circle"

\* mutant: a call that also clears the pending timers of the earlier elements
showNotificationClearing(n, message, type) ==
  LET id == n.shown + 1
      el == [id |-> id, cls |-> notifClass, type |-> type, message |-> message,
             icon |-> iconOf(type), exiting |-> FALSE, closed |-> FALSE, age |-> 0]
  IN  [body   |-> Append(removeFirst(n.body, notifClass), el),
       timers |-> {[kind |-> "dismiss", id |-> id, rem |-> dismissDelay]},
       shown  |-> id]

\* the effect of showNotification(message, type)
showNotification(n, message, type) ==
  LET id == n.shown + 1
      el == [id |-> id, cls |-> notifClass, type |-> type, message |-> message,
             icon |-> iconOf(type), exiting |-> FALSE, closed |-> FALSE, age |-> 0]
  IN  [body   |-> Append(removeFirst(n.body, notifClass), el),
       timers |-> n.timers \cup {[kind |-> "dismiss", id |-> id, rem |-> dismissDelay]},
       shown  |-> id]

(* ------------------------------- the form ------------------------------ *)

\* the successMessage argument of handleFormSubmission ("" when not given)
successMessage == ""

\* how a call of onSuccess(data) can end; "none" when no callback was given
CallbackEnds == {"none", "returns", "throws"}

\* how the awaited transmission step can end
TransmissionEnds == {"resolved", "rejected"}

dom == [errors |-> errors, border |-> border]

\* mutant: the label is swapped but the button stays enabled
showLoadingLabelOnly(b) == [b EXCEPT !.label = BusyLabel]

\* "Show loading state": the busy label and the disabled flag
showLoading(b) == [label |-> BusyLabel, disabled |-> TRUE]

\* mutant: the label is restored but the button stays disabled
resetLabelOnly(b, originalBtnText) == [b EXCEPT !.label = originalBtnText]

\* the finally block: the label read before the await, and enabled again
resetButton(b, originalBtnText) == [label |-> originalBtnText, disabled |-> FALSE]

\* mutant: the error is only logged
onErrorSilent(n) == n

\* the catch block: the error is logged, the user gets the fixed message
onError(n) == showNotification(n, MsgRetry, "error")

\* the first statement after the await
onSent(n) ==
  showNotification(n,
    IF successMessage # "" THEN successMessage ELSE MsgDefaultSuccess, "success")

\* the styles the markup gives the spans of the menu toggle: none inline
BarsAtLoad == [transform0 |-> "", opacity1 |-> "", transform2 |-> ""]

\* the widest window the handlers treat as a mobile one
Breakpoint == 768

\* the menu as the page loads it, in a narrow window
NoMenu ==
  /\ active = FALSE
  /\ spans = BarsAtLoad
  /\ innerWidth = Breakpoint

\* addCharacterCounter has not been called
NoCounter ==
  /\ maxLength = 0
  /\ text = <<>>
  /\ counter = [textContent |-> <<>>, color |-> ""]

\* the debounced function has not been called
NoResize ==
  /\ wait = MaxWait
  /\ timeout = 0
  /\ later = {}
  /\ calls = 0
  /\ since = 0
  /\ lastArgs = "none"
  /\ owed = FALSE
  /\ ran = <<>>
  /\ runs = 0

\* no validator is being tried on its own
NoProbe ==
  [value |-> <<>>, type |-> "text", required |-> FALSE, hasMinlength |-> FALSE,
   minlength |-> <<>>]

NoVerdict == [fn |-> "none", isValid |-> TRUE, errorMessage |-> <<>>]

Init ==
  /\ value = defaultValue
  /\ parentOf \in Layouts
  /\ errors = [p \in Parents |-> <<>>]
  /\ border = [f \in FieldNames |-> ""]
  /\ btn = [label |-> OriginalLabel, disabled |-> FALSE]
  /\ pending = <<>>
  /\ binding \in {"forms", "script"}
  /\ body = <<>>
  /\ timers = {}
  /\ shown = 0
  /\ nlButton = [html |-> "Suscribirse", background |-> ""]
  /\ nlTimers = {}
  /\ outcome = "none"
  /\ invoked = <<>>
  /\ probe = NoProbe
  /\ verdict = NoVerdict
  /\ NoResize
  /\ NoMenu
  /\ NoCounter

\* the user edits a field
Type(f, v) ==
  /\ v # value[f]
  /\ value' = [value EXCEPT ![f] = v]
  /\ outcome' = "none"
  /\ invoked' = <<>>
  /\ UNCHANGED <<parentOf, errors, border, btn, pending, notifVars, nlVars, otherVars>>

\* input.addEventListener('blur', ...)
Blur(f) ==
  LET r == validateField(dom, f)
  IN  /\ errors' = r.dom.errors
      /\ border' = r.dom.border
      /\ outcome' = "none"
      /\ invoked' = <<>>
      /\ UNCHANGED <<value, parentOf, btn, pending, notifVars, nlVars, otherVars>>

\* input.addEventListener('focus', ...)
Focus(f) ==
  LET r == clearFieldError(dom, f)
  IN  /\ errors' = r.errors
      /\ border' = r.border
      /\ outcome' = "none"
      /\ invoked' = <<>>
      /\ UNCHANGED <<value, parentOf, btn, pending, notifVars, nlVars, otherVars>>

\* the submit listener up to its await.  The browser dispatches no submit
\* event from a disabled submit button.
Submit ==
  LET r == validateAll(dom, 1, TRUE)
  IN  /\ ~btn.disabled
      /\ errors' = r.dom.errors
      /\ border' = r.dom.border
      /\ outcome' = "none"
      /\ invoked' = <<>>
      /\ IF ~r.valid
           THEN /\ canShow(notifs)
                /\ LET n == showNotification(notifs, MsgCorrect, "error")
                   IN  body' = n.body /\ timers' = n.timers /\ shown' = n.shown
                /\ UNCHANGED <<btn, pending>>
           ELSE /\ pending' = Append(pending,
                       [data |-> value, originalBtnText |-> btn.label,
                        rem |-> TransmitDelay])
                /\ btn' = showLoading(btn)
                /\ UNCHANGED <<body, timers, shown>>
      /\ UNCHANGED <<value, parentOf, binding, nlVars, otherVars>>

\* mutant: the FormData is read after the await
onSuccessCallsLate(callback, data, typed, reset, n) ==
  IF callback = "none" THEN <<>>
  ELSE <<[data |-> typed, value |-> reset, body |-> n.body]>>

\* if (onSuccess) onSuccess(data): the calls made, each with its argument
\* and with what the callback finds in the page, the fields and the
\* notification.  typed is what the fields held before form.reset(), reset
\* what they hold after it, n the notifications after the success message.
onSuccessCalls(callback, data, typed, reset, n) ==
  IF callback = "none" THEN <<>>
  ELSE <<[data |-> data, value |-> reset, body |-> n.body]>>

\* the submit listener from its await on: try, catch and finally
Settle(k, result, callback) ==
  LET p  == pending[k]
      ok == onSent(notifs)
  IN  /\ p.rem = 0
      /\ canShow(notifs)
      /\ IF result = "resolved"
           THEN /\ value' = defaultValue
                /\ invoked' = onSuccessCalls(callback, p.data, value, defaultValue, ok)
                /\ IF callback = "throws"
                     THEN /\ canShow(ok)
                          /\ LET n == onError(ok)
                             IN  body' = n.body /\ timers' = n.timers /\ shown' = n.shown
                          /\ outcome' = "callbackThrew"
                     ELSE /\ body' = ok.body /\ timers' = ok.timers /\ shown' = ok.shown
                          /\ outcome' = "succeeded"
           ELSE /\ callback = "none"
                /\ LET n == onError(notifs)
                   IN  body' = n.body /\ timers' = n.timers /\ shown' = n.shown
                /\ outcome' = "failed"
                /\ invoked' = <<>>
                /\ UNCHANGED value
      /\ btn' = resetButton(btn, p.originalBtnText)
      /\ pending' = SubSeq(pending, 1, k - 1) \o SubSeq(pending, k + 1, Len(pending))
      /\ UNCHANGED <<parentOf, errors, border, binding, nlVars, otherVars>>

(* ----------------------------- the newsletter -------------------------- *)

NewsletterSubmit ==
  /\ canShow(notifs)
  /\ nlButton' = [html |-> "<i class='fas fa-check'></i>",
                  background |-> "linear-gradient(135deg, #10b981 0%, #059669 100%)"]
  /\ LET n == showNotification(notifs, MsgSubscribed, "success")
     IN  body' = n.body /\ timers' = n.timers /\ shown' = n.shown
  /\ nlTimers' = nlTimers \cup {[originalHTML |-> nlButton.html, rem |-> NewsletterDelay]}
  /\ outcome' = "none"
  /\ invoked' = <<>>
  /\ UNCHANGED <<value, parentOf, errors, border, btn, pending, binding, otherVars>>

NewsletterRestore(t) ==
  /\ t.rem = 0
  /\ nlButton' = [html |-> t.originalHTML, background |-> ""]
  /\ nlTimers' = nlTimers \ {t}
  /\ outcome' = "none"
  /\ invoked' = <<>>
  /\ UNCHANGED <<value, parentOf, errors, border, btn, pending, notifVars, otherVars>>

(* --------------------------- notification timers ----------------------- *)

\* closeBtn.addEventListener('click', ...): only the first declaration gives
\* its element a close button
CloseClick(id) ==
  /\ \E k \in 1..Len(body) : body[k].id = id /\ body[k].cls = "form-notification"
  /\ body' = startExit(body, id, TRUE)
  /\ timers' = timers \cup {[kind |-> "remove", id |-> id, rem |-> ExitDelay]}
  /\ outcome' = "none"
  /\ invoked' = <<>>
  /\ UNCHANGED <<formVars, binding, shown, nlVars, otherVars>>

\* mutant: the callback looks the notification up in the document instead of
\* using the element it was created for
DismissTimeoutCurrent(t) ==
  /\ t.kind = "dismiss"
  /\ t.rem = 0
  /\ IF body = <<>>
       THEN /\ timers' = timers \ {t}
            /\ UNCHANGED body
       ELSE /\ body' = startExit(body, body[1].id, FALSE)
            /\ timers' = (timers \ {t}) \cup
                           {[kind |-> "remove", id |-> body[1].id, rem |-> ExitDelay]}
  /\ outcome' = "none"
  /\ invoked' = <<>>
  /\ UNCHANGED <<formVars, binding, shown, nlVars, otherVars>>

\* the callback of the auto-remove timer
DismissTimeout(t) ==
  /\ t.kind = "dismiss"
  /\ t.rem = 0
  /\ IF binding = "forms" /\ ~attached(body, t.id)
       THEN /\ timers' = timers \ {t}
            /\ UNCHANGED body
       ELSE /\ body' = startExit(body, t.id, FALSE)
            /\ timers' = (timers \ {t}) \cup
                           {[kind |-> "remove", id |-> t.id, rem |-> ExitDelay]}
  /\ outcome' = "none"
  /\ invoked' = <<>>
  /\ UNCHANGED <<formVars, binding, shown, nlVars, otherVars>>

\* mutant: the callback removes whichever notification is in the document
RemoveTimeoutCurrent(t) ==
  /\ t.kind = "remove"
  /\ t.rem = 0
  /\ body' = removeFirst(body, notifClass)
  /\ timers' = timers \ {t}
  /\ outcome' = "none"
  /\ invoked' = <<>>
  /\ UNCHANGED <<formVars, binding, shown, nlVars, otherVars>>

\* setTimeout(() => notification.remove(), 300)
RemoveTimeout(t) ==
  /\ t.kind = "remove"
  /\ t.rem = 0
  /\ body' = detach(body, t.id)
  /\ timers' = timers \ {t}
  /\ outcome' = "none"
  /\ invoked' = <<>>
  /\ UNCHANGED <<formVars, binding, shown, nlVars, otherVars>>

(* ---------------------------------- time ------------------------------- *)

timersLeft ==
  {t.rem : t \in timers} \cup {t.rem : t \in nlTimers}
    \cup {pending[k].rem : k \in 1..Len(pending)}

nextDue == CHOOSE r \in timersLeft : \A q \in timersLeft : r <= q

\* time passes: d units of 100 ms, up to the moment the next timer is due (a
\* timer that is due runs before time goes on).  The user is observed at the
\* moments a timer is due and every Pace units in between.
Tick(d) ==
  /\ d >= 1
  /\ d <= nextDue
  /\ timers' = {[t EXCEPT !.rem = @ - d] : t \in timers}
  /\ nlTimers' = {[t EXCEPT !.rem = @ - d] : t \in nlTimers}
  /\ pending' = [k \in 1..Len(pending) |-> [pending[k] EXCEPT !.rem = @ - d]]
  /\ body' = [k \in 1..Len(body) |-> [body[k] EXCEPT !.age = @ + d]]
  /\ outcome' = "none"
  /\ invoked' = <<>>
  /\ UNCHANGED <<value, parentOf, errors, border, btn, binding, shown, nlButton, otherVars>>

\* the contact form: its fields, its submit listener and what they start
Next ==
  \/ \E f \in FieldNames : \E v \in Typed[f] : Type(f, v)
  \/ \E f \in FieldNames : Blur(f)
  \/ \E f \in FieldNames : Focus(f)
  \/ Submit
  \/ \E k \in 1..Len(pending) : \E result \in TransmissionEnds :
       \E callback \in CallbackEnds : Settle(k, result, callback)
  \/ \E t \in timers : DismissTimeout(t)
  \/ \E t \in timers : RemoveTimeout(t)
  \/ timersLeft # {} /\ \E d \in {Pace, nextDue} : Tick(d)

Spec == Init /\ [][Next]_vars

\* the contact form with an event loop that runs every timer callback that
\* is due and every continuation whose await has settled, and a clock that
\* goes on
SettleStep ==
  \E k \in 1..Len(pending) : \E result \in TransmissionEnds :
    \E callback \in CallbackEnds : Settle(k, result, callback)
DismissStep == \E t \in timers : DismissTimeout(t)
RemoveStep == \E t \in timers : RemoveTimeout(t)
TickStep == timersLeft # {} /\ \E d \in {Pace, nextDue} : Tick(d)

SpecFair ==
  /\ Spec
  /\ WF_vars(SettleStep)
  /\ WF_vars(DismissStep)
  /\ WF_vars(RemoveStep)
  /\ WF_vars(TickStep)

\* a form filled in with values that pass validation
Filled ==
  [f \in FieldNames |-> IF f = "email" THEN <<"a", "@", "b", ".", "c">> ELSE <<"a", "b">>]

\* every caller of showNotification, on a form whose fields were filled in
\* before
InitNotify ==
  /\ value \in {defaultValue, Filled}
  /\ parentOf \in Layouts
  /\ errors = [p \in Parents |-> <<>>]
  /\ border = [f \in FieldNames |-> ""]
  /\ btn = [label |-> OriginalLabel, disabled |-> FALSE]
  /\ pending = <<>>
  /\ binding \in {"forms", "script"}
  /\ body = <<>>
  /\ timers = {}
  /\ shown = 0
  /\ nlButton = [html |-> "Suscribirse", background |-> ""]
  /\ nlTimers = {}
  /\ outcome = "none"
  /\ invoked = <<>>
  /\ probe = NoProbe
  /\ verdict = NoVerdict
  /\ NoResize
  /\ NoMenu
  /\ NoCounter

NextNotify ==
  \/ Submit
  \/ \E k \in 1..Len(pending) : \E result \in TransmissionEnds :
       \E callback \in CallbackEnds : Settle(k, result, callback)
  \/ NewsletterSubmit
  \/ \E t \in nlTimers : NewsletterRestore(t)
  \/ \E id \in NotifIds : CloseClick(id)
  \/ \E t \in timers : DismissTimeout(t)
  \/ \E t \in timers : RemoveTimeout(t)
  \/ timersLeft # {} /\ \E d \in {Pace, nextDue} : Tick(d)

SpecNotify == InitNotify /\ [][NextNotify]_vars

\* what the page's scripts may pass to window.formUtils.showNotification
Calls == {<<MsgSubscribed, "success">>, <<"", "info">>}

\* a direct call of the exported showNotification
Notify(message, type) ==
  /\ canShow(notifs)
  /\ LET n == showNotification(notifs, message, type)
     IN  body' = n.body /\ timers' = n.timers /\ shown' = n.shown
  /\ outcome' = "none"
  /\ invoked' = <<>>
  /\ UNCHANGED <<formVars, binding, nlVars, otherVars>>

\* the notification alone, observed every 100 ms
NextTimers ==
  \/ \E c \in Calls : Notify(c[1], c[2])
  \/ \E id \in NotifIds : CloseClick(id)
  \/ \E t \in timers : DismissTimeout(t)
  \/ \E t \in timers : RemoveTimeout(t)
  \/ timersLeft # {} /\ Tick(1)

SpecTimers == Init /\ [][NextTimers]_vars

(* ------------------------- the validators alone ------------------------ *)

\* the strings over an alphabet, up to a length
Strings(alphabet, n) == UNION {[1..k -> alphabet] : k \in 0..n}

\* s with the character c put after its first k characters
insertAt(s, k, c) == SubSeq(s, 1, k) \o <<c>> \o SubSeq(s, k + 1, Len(s))

\* what is typed into an email field
EmailValues == Strings({"a", "@", ".", " "}, MaxEmailLen)

\* what is typed into a telephone field: digits, blanks and letters, and
\* the shortest run of enough digits with one more character somewhere in it
PhoneValues ==
  Strings({"1", " ", "a"}, MaxPhoneLen)
    \cup { insertAt([k \in 1..MinPhoneDigits |-> "1"], at, c) :
             at \in 0..MinPhoneDigits,
             c \in {"2", " ", "+", "-", "(", ")", ".", "a", "\t", "\n"} }

TextValues == Strings({"a", " "}, MaxTextLen)

\* the minlength attributes tried on a text field
MinlengthAttrs ==
  { <<"2">>, <<"0">>, <<"-", "1">>, <<"a", "b", "c">>, <<>>, <<"2", "x">>, <<" ", "3">> }

\* an element without the attribute: getAttribute gives null, which parseInt
\* turns into NaN like the empty string
Probes ==
  { [value |-> v, type |-> "email", required |-> r, hasMinlength |-> h,
     minlength |-> IF h THEN <<"6">> ELSE <<>>] :
       v \in EmailValues, r \in BOOLEAN, h \in BOOLEAN }
  \cup
  { [value |-> v, type |-> "tel", required |-> r, hasMinlength |-> h,
     minlength |-> IF h THEN <<"8">> ELSE <<>>] :
       v \in PhoneValues, r \in BOOLEAN, h \in BOOLEAN }
  \cup
  { [value |-> v, type |-> "text", required |-> r, hasMinlength |-> TRUE,
     minlength |-> m] :
       v \in TextValues, r \in BOOLEAN, m \in MinlengthAttrs }
  \cup
  { [value |-> v, type |-> "text", required |-> r, hasMinlength |-> FALSE,
     minlength |-> <<>>] :
       v \in TextValues, r \in BOOLEAN }

InitValidate ==
  /\ probe \in Probes
  /\ verdict = NoVerdict
  /\ NoResize
  /\ NoMenu
  /\ NoCounter
  /\ value = defaultValue
  /\ parentOf = OwnGroups
  /\ errors = [p \in Parents |-> <<>>]
  /\ border = [f \in FieldNames |-> ""]
  /\ btn = [label |-> OriginalLabel, disabled |-> FALSE]
  /\ pending = <<>>
  /\ binding = "forms"
  /\ body = <<>>
  /\ timers = {}
  /\ shown = 0
  /\ nlButton = [html |-> "Suscribirse", background |-> ""]
  /\ nlTimers = {}
  /\ outcome = "none"
  /\ invoked = <<>>

\* validateField(field) on the probe: isValid and the message it shows
Validate ==
  /\ verdict' = [fn |-> "validateField",
                 isValid |-> checkField(probe).isValid,
                 errorMessage |-> checkField(probe).errorMessage]
  /\ UNCHANGED <<probe, formVars, notifVars, nlVars, outcome, invoked, debounceVars,
               menuVars, counterVars>>

\* window.formUtils.validateEmail(value) on the untrimmed value
TestEmail ==
  /\ probe.type = "email"
  /\ verdict' = [fn |-> "validateEmail", isValid |-> validateEmail(probe.value),
                 errorMessage |-> <<>>]
  /\ UNCHANGED <<probe, formVars, notifVars, nlVars, outcome, invoked, debounceVars,
               menuVars, counterVars>>

\* window.formUtils.validatePhone(value) on the untrimmed value
TestPhone ==
  /\ probe.type = "tel"
  /\ verdict' = [fn |-> "validatePhone", isValid |-> validatePhone(probe.value),
                 errorMessage |-> <<>>]
  /\ UNCHANGED <<probe, formVars, notifVars, nlVars, outcome, invoked, debounceVars,
               menuVars, counterVars>>

NextValidate == Validate \/ TestEmail \/ TestPhone

SpecValidate == InitValidate /\ [][NextValidate]_vars

(* ------------------------------- debounce ------------------------------ *)

\* what the debounced function may be called with
Args == {"e1", "e2"}

\* mutant: the timer is left pending
clearTimeoutNone(ts, id) == ts

\* clearTimeout(id) on the pending timers ts; an id of no pending timer, or
\* undefined (0), clears nothing
clearTimeout(ts, id) == {t \in ts : t.id # id}

pageVars == <<formVars, notifVars, nlVars, outcome, invoked, checkVars, counterVars>>

InitDebounce ==
  /\ wait \in 1..MaxWait
  /\ timeout = 0
  /\ later = {}
  /\ calls = 0
  /\ since = 0
  /\ lastArgs = "none"
  /\ owed = FALSE
  /\ ran = <<>>
  /\ runs = 0
  /\ NoMenu
  /\ NoCounter
  /\ probe = NoProbe
  /\ verdict = NoVerdict
  /\ value = defaultValue
  /\ parentOf = OwnGroups
  /\ errors = [p \in Parents |-> <<>>]
  /\ border = [f \in FieldNames |-> ""]
  /\ btn = [label |-> OriginalLabel, disabled |-> FALSE]
  /\ pending = <<>>
  /\ binding = "forms"
  /\ body = <<>>
  /\ timers = {}
  /\ shown = 0
  /\ nlButton = [html |-> "Suscribirse", background |-> ""]
  /\ nlTimers = {}
  /\ outcome = "none"
  /\ invoked = <<>>

\* executedFunction(...args): the pending timer is cleared and a new one
\* set, whose callback keeps args
Call(args) ==
  /\ calls < MaxCalls
  /\ calls' = calls + 1
  /\ timeout' = calls + 1
  /\ later' = clearTimeout(later, timeout)
                 \cup {[id |-> calls + 1, args |-> args, rem |-> wait]}
  /\ since' = 0
  /\ lastArgs' = args
  /\ owed' = TRUE
  /\ ran' = <<>>
  /\ UNCHANGED <<wait, runs, pageVars>>

\* the callback later of timer t, when t is due: clearTimeout(timeout), then
\* func(...args)
Later(t) ==
  /\ t.rem = 0
  /\ later' = clearTimeout(later \ {t}, timeout)
  /\ ran' = <<t.args>>
  /\ runs' = runs + 1
  /\ owed' = FALSE
  /\ UNCHANGED <<wait, timeout, calls, since, lastArgs, pageVars>>

\* one unit of time passes; a timer that is due runs before time goes on
Elapse ==
  /\ \A t \in later : t.rem > 0
  /\ later' = {[t EXCEPT !.rem = @ - 1] : t \in later}
  /\ since' = IF since <= wait THEN since + 1 ELSE since
  /\ ran' = <<>>
  /\ UNCHANGED <<wait, timeout, calls, lastArgs, owed, runs, pageVars>>

\* debounce with a func that leaves the page alone
NextDebounce ==
  \/ (\E args \in Args : Call(args)) /\ UNCHANGED menuVars
  \/ (\E t \in later : Later(t)) /\ UNCHANGED menuVars
  \/ Elapse /\ UNCHANGED menuVars

SpecDebounce == InitDebounce /\ [][NextDebounce]_vars

(* ------------------------------- the menu ------------------------------ *)

\* the widths the window is given
Widths == {Breakpoint, Breakpoint + 1}

\* the styles the click handler gives the spans of an open menu
Cross ==
  [transform0 |-> "rotate(45deg) translate(5px, 5px)",
   opacity1   |-> "0",
   transform2 |-> "rotate(-45deg) translate(7px, -6px)"]

\* the styles the handlers give the spans of a closed menu
Bars == [transform0 |-> "none", opacity1 |-> "1", transform2 |-> "none"]

InitMenu ==
  /\ wait \in 1..MaxWait
  /\ timeout = 0
  /\ later = {}
  /\ calls = 0
  /\ since = 0
  /\ lastArgs = "none"
  /\ owed = FALSE
  /\ ran = <<>>
  /\ runs = 0
  /\ active = FALSE
  /\ spans = BarsAtLoad
  /\ innerWidth \in Widths
  /\ NoCounter
  /\ probe = NoProbe
  /\ verdict = NoVerdict
  /\ value = defaultValue
  /\ parentOf = OwnGroups
  /\ errors = [p \in Parents |-> <<>>]
  /\ border = [f \in FieldNames |-> ""]
  /\ btn = [label |-> OriginalLabel, disabled |-> FALSE]
  /\ pending = <<>>
  /\ binding = "forms"
  /\ body = <<>>
  /\ timers = {}
  /\ shown = 0
  /\ nlButton = [html |-> "Suscribirse", background |-> ""]
  /\ nlTimers = {}
  /\ outcome = "none"
  /\ invoked = <<>>

\* menuToggle.addEventListener('click', ...)
ToggleClick ==
  /\ active' = ~active
  /\ spans' = IF ~active THEN Cross ELSE Bars
  /\ ran' = <<>>
  /\ UNCHANGED <<innerWidth, wait, timeout, later, calls, since, lastArgs, owed,
                 runs, pageVars>>

\* the click listener of a link of the menu
NavLinkClick ==
  /\ IF innerWidth <= Breakpoint
       THEN active' = FALSE /\ spans' = Bars
       ELSE UNCHANGED <<active, spans>>
  /\ ran' = <<>>
  /\ UNCHANGED <<innerWidth, wait, timeout, later, calls, since, lastArgs, owed,
                 runs, pageVars>>

\* the keydown listener, for the Escape key
EscapeKey ==
  /\ IF active
       THEN active' = FALSE /\ spans' = Bars
       ELSE UNCHANGED <<active, spans>>
  /\ ran' = <<>>
  /\ UNCHANGED <<innerWidth, wait, timeout, later, calls, since, lastArgs, owed,
                 runs, pageVars>>

\* the window gets the width w: a resize event, which calls handleResize
Resize(w, args) ==
  /\ w # innerWidth
  /\ innerWidth' = w
  /\ Call(args)
  /\ UNCHANGED <<active, spans>>

\* the func given to debounce: the menu of a wide window loses its class
handleResize(a, w) == IF w > Breakpoint /\ a THEN FALSE ELSE a

\* the timer of handleResize runs later, which runs func
ResizeTimeout(t) ==
  /\ Later(t)
  /\ active' = handleResize(active, innerWidth)
  /\ UNCHANGED <<spans, innerWidth>>

NextMenu ==
  \/ ToggleClick
  \/ NavLinkClick
  \/ EscapeKey
  \/ \E w \in Widths : \E args \in Args : Resize(w, args)
  \/ \E t \in later : ResizeTimeout(t)
  \/ Elapse /\ UNCHANGED menuVars

SpecMenu == InitMenu /\ [][NextMenu]_vars

(* ------------------------- the character counter ---------------------- *)

\* the thresholds of updateCounter, in the order it tests them
WarningBelow == 50
DangerBelow == 20

\* what is typed into the textarea
Letters == {"a"}

\* updateCounter(): the counter for a textarea that holds txt
updateCounter(max, txt) ==
  LET remaining == max - Len(txt)
  IN  [textContent |-> <<remaining, "caracteres restantes">>,
       color |-> IF remaining < WarningBelow THEN "#f59e0b"
                 ELSE IF remaining < DangerBelow THEN "#ef4444"
                 ELSE "var(--text-secondary)"]

\* the page after addCharacterCounter(textareaId, maxLength) on an empty
\* textarea: the counter is appended and updated once
InitCounter ==
  /\ maxLength \in 1..MaxCounterLength
  /\ text = <<>>
  /\ counter = updateCounter(maxLength, <<>>)
  /\ NoResize
  /\ NoMenu
  /\ probe = NoProbe
  /\ verdict = NoVerdict
  /\ value = defaultValue
  /\ parentOf = OwnGroups
  /\ errors = [p \in Parents |-> <<>>]
  /\ border = [f \in FieldNames |-> ""]
  /\ btn = [label |-> OriginalLabel, disabled |-> FALSE]
  /\ pending = <<>>
  /\ binding = "forms"
  /\ body = <<>>
  /\ timers = {}
  /\ shown = 0
  /\ nlButton = [html |-> "Suscribirse", background |-> ""]
  /\ nlTimers = {}
  /\ outcome = "none"
  /\ invoked = <<>>

\* an input event after the user typed a character; the maxlength attribute
\* set on the textarea keeps the user from typing more
InputInsert(c) ==
  /\ Len(text) < maxLength
  /\ text' = Append(text, c)
  /\ counter' = updateCounter(maxLength, text')
  /\ UNCHANGED <<maxLength, formVars, notifVars, nlVars, outcome, invoked,
                 checkVars, debounceVars, menuVars>>

\* an input event after the user deleted the last character
InputDelete ==
  /\ text # <<>>
  /\ text' = SubSeq(text, 1, Len(text) - 1)
  /\ counter' = updateCounter(maxLength, text')
  /\ UNCHANGED <<maxLength, formVars, notifVars, nlVars, outcome, invoked,
                 checkVars, debounceVars, menuVars>>

NextCounter ==
  \/ \E c \in Letters : InputInsert(c)
  \/ InputDelete

SpecCounter == InitCounter /\ [][NextCounter]_vars

(* -------------------------------- claims -------------------------------- *)

allValid == \A f \in FieldNames : validateField(dom, f).valid

\* C1: a submit event starts the transmission step exactly once when
\* validateField accepts every field of the form, and not at all when it
\* rejects at least one.
C1_TransmitIffAllValid ==
  [][Submit =>
       IF allValid THEN Len(pending') = Len(pending) + 1 ELSE pending' = pending]_vars

\* an invalid submit raised its notification, then a valid one started the
\* transmission
C1_Witness ==
  /\ Len(pending) = 1
  /\ Len(body) = 1
  /\ body[1].message = MsgCorrect

\* C2: a form has at most one submission in flight, and while one is in
\* flight no submit event starts another.
C2_OneInFlight ==
  /\ Len(pending) <= 1
  /\ pending # <<>> => ~ENABLED Submit

\* a submission is awaiting the transmission step and the fields would pass
\* validation again
C2_Witness ==
  /\ Len(pending) = 1
  /\ pending[1].rem < TransmitDelay
  /\ allValid

\* C3: whenever no submission is in flight the submit control is enabled and
\* carries its original label, also after a transmission that raised.
C3_ButtonRestored ==
  pending = <<>> => btn = [label |-> OriginalLabel, disabled |-> FALSE]

C3_Witness ==
  /\ outcome = "failed"
  /\ pending = <<>>
  /\ btn = [label |-> OriginalLabel, disabled |-> FALSE]

\* C4: right after a submission whose transmission succeeded, the fields are
\* reset and exactly one notification is visible, of severity success,
\* whatever the onSuccess callback did.
C4_SuccessNotified ==
  outcome \in {"succeeded", "callbackThrew"} =>
    /\ value = defaultValue
    /\ Len(body) = 1
    /\ body[1].type = "success"

\* C5: the step that completes a submission whose transmission raised leaves
\* exactly one notification, the retry message with severity error, leaves
\* the field values as they were and leaves the submit control enabled.
C5_FailureNotified ==
  [][outcome' = "failed" =>
       /\ Len(body') = 1
       /\ body'[1].message = MsgRetry
       /\ body'[1].type = "error"
       /\ value' = value
       /\ ~btn'.disabled]_vars

\* the transmission raised while the form still held what the user typed
C5_Witness ==
  /\ outcome = "failed"
  /\ value # defaultValue
  /\ Len(body) = 1

\* C6: at most one notification is in the document, and it is the one of the
\* latest showNotification call.
C6_AtMostOneNotification ==
  /\ Len(body) <= 1
  /\ \A k \in 1..Len(body) : body[k].id = shown

\* the second call came while the timer of the first was still pending
C6_Witness ==
  /\ shown = 2
  /\ Len(body) = 1
  /\ body[1].id = 2
  /\ \E t \in timers : t.id = 1 /\ t.kind = "dismiss"

\* an element the user did not close has a timer of its own that is due
\* exactly when its timeout, or its timeout and the exit animation, has passed
C7_OwnTimer ==
  \A k \in 1..Len(body) :
    ~body[k].closed =>
      \E t \in timers :
        /\ t.id = body[k].id
        /\ \/ /\ t.kind = "dismiss"
              /\ ~body[k].exiting
              /\ body[k].age + t.rem = dismissDelay
           \/ /\ t.kind = "remove"
              /\ body[k].exiting
              /\ body[k].age + t.rem = dismissDelay + ExitDelay

\* an element the user did not close leaves the document, in a step that is
\* no showNotification call, only at the age of its timeout and exit animation
C7_NotEarlier ==
  \A k \in 1..Len(body) :
    (/\ ~attached(body', body[k].id)
     /\ shown' = shown
     /\ ~body[k].closed) => body[k].age = dismissDelay + ExitDelay

\* C7: a notification that is neither closed by the user nor evicted is
\* removed when its own timeout and the exit animation have passed, and not
\* before; the timer of an earlier notification never removes a later one.
C7_RemovedAtTimeout == []C7_OwnTimer /\ [][C7_NotEarlier]_vars

\* the second notification has run through its whole timeout and is about to
\* be removed
C7_Witness ==
  /\ shown = 2
  /\ Len(body) = 1
  /\ body[1].id = 2
  /\ body[1].exiting
  /\ ~body[1].closed
  /\ body[1].age = dismissDelay + ExitDelay

\* C8 as stated: after a showNotification call the only pending dismiss timer
\* is the one of the new notification.
C8_OnlyNewTimerPending ==
  \A t \in timers : t.kind = "dismiss" => t.id = shown

\* C8 as amended: a showNotification call leaves every pending timer pending,
\* and the dismiss timer of an earlier notification, when it fires, leaves
\* the document as it is.
C8_OldTimerHarmless ==
  [][/\ shown' # shown => \A t \in timers : t \in timers'
     /\ \A t \in timers :
          (t.kind = "dismiss" /\ t.rem = 0 /\ t.id # shown /\ t \notin timers')
            => body' = body]_vars

\* the dismiss timer of the evicted first notification is due while the
\* second notification is in the document
C8_Witness ==
  /\ shown = 2
  /\ Len(body) = 1
  /\ body[1].id = 2
  /\ \E t \in timers : t.kind = "dismiss" /\ t.id = 1 /\ t.rem = 0
  /\ \E t \in timers : t.kind = "dismiss" /\ t.id = 2

\* C9: a showNotification call during the exit animation of the previous
\* notification replaces it at once, and the removal callback of the previous
\* one, when it fires later, leaves the document as it is.
C9_ShowDuringExit ==
  [][/\ (shown' # shown /\ body # <<>> /\ body[1].exiting) =>
          /\ Len(body') = 1
          /\ body'[1].id = shown'
          /\ ~body'[1].exiting
     /\ \A t \in timers :
          (t.kind = "remove" /\ t.rem = 0 /\ t.id # shown /\ t \notin timers')
            => body' = body]_vars

\* the removal callback of the first notification is due while the second
\* notification is in the document
C9_Witness ==
  /\ shown = 2
  /\ Len(body) = 1
  /\ body[1].id = 2
  /\ \E t \in timers : t.kind = "remove" /\ t.id = 1 /\ t.rem = 0

requiredFails(p) == p.required /\ trim(p.value) = <<>>
emailFails(p) ==
  p.type = "email" /\ trim(p.value) # <<>> /\ ~validateEmail(trim(p.value))
phoneFails(p) ==
  p.type = "tel" /\ trim(p.value) # <<>> /\ ~validatePhone(trim(p.value))
minLengthFails(p) ==
  /\ p.hasMinlength
  /\ ~parseInt(p.minlength).nan
  /\ Len(trim(p.value)) < parseInt(p.minlength).n

\* the checks in the order required, email, phone, minimum length
failing(p) == <<requiredFails(p), emailFails(p), phoneFails(p), minLengthFails(p)>>
messageOf(p) ==
  <<MsgRequired, MsgEmail, MsgPhone, MsgMinLength(parseInt(p.minlength).n)>>

\* C11: validateField reports the message of the first check that fails
\* in the order required, email, phone, minimum length, and returns true
\* exactly when no check fails.
C11_FirstFailingCheck ==
  verdict.fn = "validateField" =>
    /\ verdict.isValid <=> \A k \in 1..4 : ~failing(probe)[k]
    /\ \A k \in 1..4 :
         (failing(probe)[k] /\ \A j \in 1..(k - 1) : ~failing(probe)[j])
           => verdict.errorMessage = messageOf(probe)[k]

\* an email field whose value is neither an address nor long enough
C11_Witness ==
  /\ verdict.fn = "validateField"
  /\ emailFails(probe) /\ minLengthFails(probe)
  /\ verdict.errorMessage = MsgEmail

\* the value is empty or holds white space only
blank(v) == \A k \in 1..Len(v) : v[k] \in Whitespace

\* C12: a required field fails with the required-field message when its
\* value is empty or only white space; a value with any other character
\* does not fail the required check, and neither does any value of a field
\* that is not required.
C12_RequiredCheck ==
  verdict.fn = "validateField" =>
    IF probe.required /\ blank(probe.value)
      THEN ~verdict.isValid /\ verdict.errorMessage = MsgRequired
      ELSE verdict.errorMessage # MsgRequired

\* a required field holding white space only
C12_Witness ==
  /\ verdict.fn = "validateField"
  /\ probe.required /\ probe.value # <<>> /\ blank(probe.value)
  /\ verdict.errorMessage = MsgRequired

\* the string has the character c at a place in ps
has(s, c, ps) == \E k \in ps : s[k] = c

\* local@domain.tld: one @, no white space, a dot after the @ with
\* something before the @, between the @ and the dot, and after the dot
addressShape(s) ==
  /\ Cardinality({k \in 1..Len(s) : s[k] = "@"}) = 1
  /\ \A k \in 1..Len(s) : s[k] \notin Whitespace
  /\ \E i \in 1..Len(s) : \E j \in 1..Len(s) :
       s[i] = "@" /\ s[j] = "." /\ 1 < i /\ i + 1 < j /\ j < Len(s)

\* C13: validateEmail is false for every string without an @ or without a
\* dot after an @, and true for every string of the shape local@domain.tld.
C13_EmailShape ==
  verdict.fn = "validateEmail" =>
    LET s == probe.value
        noAt == ~has(s, "@", 1..Len(s))
        noDotAfterAt ==
          ~\E i \in 1..Len(s) : s[i] = "@" /\ has(s, ".", (i + 1)..Len(s))
    IN  /\ (noAt \/ noDotAfterAt) => ~verdict.isValid
        /\ addressShape(s) => verdict.isValid

\* the address a@a.a has been accepted
C13_Witness ==
  /\ verdict.fn = "validateEmail"
  /\ probe.value = <<"a", "@", "a", ".", "a">>
  /\ verdict.isValid

\* the number of digit characters of a string
digitCount(s) == Cardinality({k \in 1..Len(s) : s[k] \in Digit})

\* every character of the string is in the set
onlyOf(s, chars) == \A k \in 1..Len(s) : s[k] \in chars

\* C14 as stated: validatePhone is true exactly for the strings made of
\* digits, blanks, +, -, ( and ) only that hold at least 7 digits.
C14_BlanksOnly ==
  verdict.fn = "validatePhone" =>
    (verdict.isValid <=>
       /\ onlyOf(probe.value, Digit \cup {" ", "+", "-", "(", ")"})
       /\ digitCount(probe.value) >= 7)

\* C14: validatePhone is true exactly for the strings made of digits,
\* white space of any kind (blank, tab, line break), +, -, ( and ) only
\* that hold at least 7 digits; it is false for every other string.
C14_PhoneShape ==
  verdict.fn = "validatePhone" =>
    (verdict.isValid <=>
       /\ onlyOf(probe.value, Digit \cup Whitespace \cup {"+", "-", "(", ")"})
       /\ digitCount(probe.value) >= 7)

\* seven digits and a tab have been accepted
C14_Witness ==
  /\ verdict.fn = "validatePhone"
  /\ has(probe.value, "\t", 1..Len(probe.value))
  /\ digitCount(probe.value) = 7
  /\ verdict.isValid

\* the messages of the checks other than the minimum length, and none
otherMessages == {<<>>, MsgRequired, MsgEmail, MsgPhone}

\* the attribute is a decimal number without a sign
numeral(attr) == trim(attr) # <<>> /\ onlyOf(trim(attr), Digit)

\* the attribute without leading white space and sign
unsigned(attr) ==
  LET t == trimStart(attr)
  IN  IF t # <<>> /\ Head(t) \in {"+", "-"} THEN Tail(t) ELSE t

\* the attribute starts, after white space and sign, with a digit
startsWithDigit(attr) == unsigned(attr) # <<>> /\ Head(unsigned(attr)) \in Digit

\* the attribute has a minus sign in front
negative(attr) == trimStart(attr) # <<>> /\ Head(trimStart(attr)) = "-"

\* C15 as stated: a minlength attribute that is negative or not a number
\* is no constraint: the minimum-length check passes for every value.
C15_MalformedIgnored ==
  (verdict.fn = "validateField" /\ probe.hasMinlength /\ ~numeral(probe.minlength))
    => verdict.errorMessage \in otherMessages

\* C15: a minlength attribute that is negative, or that does not start with
\* a digit after leading white space and a sign, is no constraint: the
\* minimum-length check passes for every value, the empty one included.
C15_UnreadableIgnored ==
  (/\ verdict.fn = "validateField"
   /\ probe.hasMinlength
   /\ negative(probe.minlength) \/ ~startsWithDigit(probe.minlength))
    => verdict.errorMessage \in otherMessages

\* the empty value of an optional field with minlength="-1" was accepted
C15_Witness ==
  /\ verdict.fn = "validateField"
  /\ probe.hasMinlength /\ probe.minlength = <<"-", "1">>
  /\ ~probe.required /\ probe.value = <<>>
  /\ verdict.isValid

(* ----------------------- claims about the form, II --------------------- *)

\* no submission in flight and the submit control enabled, so that the
\* browser dispatches the next submit event to the listener
idle == pending = <<>> /\ ~btn.disabled

\* C16: a submit event that fails validation leaves the form idle at once,
\* and a form with a submission in flight eventually becomes idle again,
\* whatever the outcome of the transmission (as long as the run has a
\* notification left to show the outcome with).
C16_ReturnsToIdle ==
  /\ [][(Submit /\ ~allValid) => idle']_vars
  /\ (pending # <<>> /\ canShow(notifs)) ~> idle

\* a submission has ended with a callback that threw, and the form is idle
C16_Witness ==
  /\ outcome = "callbackThrew"
  /\ idle

\* the message validateField shows for field f, <<>> when it accepts it
messageFor(f) == checkField(element(f)).errorMessage

\* with the error elements e and the border colours b, field f carries the
\* annotation of the check it fails: the message among the .field-error
\* children of its parent, and the red border
carries(e, b, f) ==
  /\ \E k \in 1..Len(e[parentOf[f]]) : e[parentOf[f]][k] = messageFor(f)
  /\ b[f] = "#ef4444"

\* C17: a submit event on a form with an invalid field annotates every
\* invalid field, shows exactly one notification, the aggregate error
\* message, and leaves the submit control and the field values as they were.
C17_InvalidSubmit ==
  [][(Submit /\ ~allValid) =>
       /\ \A f \in FieldNames :
            ~validateField(dom, f).valid => carries(errors', border', f)
       /\ shown' = shown + 1
       /\ Len(body') = 1
       /\ body'[1].message = MsgCorrect
       /\ body'[1].type = "error"
       /\ btn' = btn
       /\ value' = value
       /\ pending' = pending]_vars

\* with the error elements e and the border colours b, field f carries no
\* annotation: its parent has no .field-error child and its border is reset
bare(e, b, f) == e[parentOf[f]] = <<>> /\ b[f] = ""

\* C19: after a blur on a field the field carries an error annotation
\* exactly when validateField rejects its value, after a focus it carries
\* none, and neither event gives another field an annotation or takes the
\* annotation of another field away.
C19_BlurFocus ==
  [][\A f \in FieldNames :
       /\ Blur(f) =>
            /\ IF validateField(dom, f).valid
                 THEN bare(errors', border', f)
                 ELSE carries(errors', border', f)
            /\ \A g \in FieldNames \ {f} :
                 carries(errors', border', g) <=> carries(errors, border, g)
       /\ Focus(f) =>
            /\ bare(errors', border', f)
            /\ \A g \in FieldNames \ {f} :
                 carries(errors', border', g) <=> carries(errors, border, g)]_vars

\* some step of the listener ends a transmission that succeeded, with an
\* onSuccess callback given
successWithCallback ==
  \E k \in 1..Len(pending) : \E callback \in CallbackEnds \ {"none"} :
    Settle(k, "resolved", callback)

\* C18: the data a submit event collects are the field values at that
\* event; when the transmission succeeds, onSuccess is called exactly once,
\* with those data, after the success notification is shown and the form is
\* reset; no other step calls it, in particular not a failed validation and
\* not a failed transmission.
C18_OnSuccessOnce ==
  [][/\ (Submit /\ allValid) => pending'[Len(pending')].data = value
     /\ \A k \in 1..Len(pending) : \A callback \in CallbackEnds \ {"none"} :
          Settle(k, "resolved", callback) =>
            /\ Len(invoked') = 1
            /\ invoked'[1].data = pending[k].data
            /\ invoked'[1].value = defaultValue
            /\ Len(invoked'[1].body) = 1
            /\ invoked'[1].body[1].type = "success"
     /\ ~successWithCallback => invoked' = <<>>]_vars

\* onSuccess has been called once, with the data of the submission, on a
\* form that is already reset
C18_Witness ==
  /\ Len(invoked) = 1
  /\ outcome = "succeeded"
  /\ invoked[1].data # defaultValue
  /\ value = defaultValue

(* ------------------------- claims about debounce ----------------------- *)

\* func runs only for the last call made, wait after that call, once
runsForLastCall ==
  [][ran' # <<>> =>
       /\ ran' = <<lastArgs>>
       /\ since = wait
       /\ owed]_vars

\* as long as func has not run for the last call, the timer of that call,
\* and no other, is pending, and is due wait after the call; once func has
\* run no timer is pending
lastCallPending ==
  IF owed
    THEN later = {[id |-> timeout, args |-> lastArgs, rem |-> wait - since]}
    ELSE later = {}

\* C20 as stated: func runs once for each maximal burst of calls that follow
\* one another by less than wait, wait after the last call of the burst and
\* with its arguments; so a call that comes wait or more after the call
\* before it finds that func has run for the burst that call ended.
C20_RunPerBurst ==
  /\ runsForLastCall
  /\ []lastCallPending
  /\ [][\A args \in Args : (Call(args) /\ calls > 0 /\ since >= wait) => ~owed]_vars

\* C20: func runs once for each maximal burst of calls each of which is
\* handled before the timer set by the call before it has run its callback;
\* it runs wait after the last call of the burst, with the arguments of that
\* call, and never while the timer of a later call is pending.  A call less
\* than wait after the one before it always extends the burst, and a call
\* exactly wait after it does when it is handled before the due callback.
C20_RunPerTimer ==
  /\ runsForLastCall
  /\ []lastCallPending
  /\ [][\A args \in Args : (Call(args) /\ calls > 0 /\ since < wait) => owed]_vars
  /\ [][\A args \in Args : (Call(args) /\ calls > 0 /\ since > wait) => ~owed]_vars

\* func has run for the first time, for the second of two calls
C20_Witness ==
  /\ calls = 2
  /\ runs = 1
  /\ ran = <<lastArgs>>
  /\ since = wait

(* ------------------------- claims about the menu ----------------------- *)

\* the spans have their closed form: as in the markup, or as reset
closedForm(sp) ==
  /\ sp.transform0 \in {"", "none"}
  /\ sp.opacity1 \in {"", "1"}
  /\ sp.transform2 \in {"", "none"}

\* C21: the icon of the menu toggle is a cross exactly when the menu has the
\* class active; a menu that was closed has the three spans in their closed
\* form.
C21_IconMatchesMenu ==
  /\ active => spans = Cross
  /\ ~active => closedForm(spans)

(* ------------------- claims about the character counter ---------------- *)

\* C22: after every input event the counter shows maxLength minus the
\* length of the text, in the danger colour when fewer than 20 characters
\* remain, in the warning colour when at least 20 and fewer than 50 remain,
\* and in the default colour otherwise.
C22_CounterColour ==
  [][text' # text =>
       LET remaining == maxLength - Len(text')
       IN  /\ counter'.textContent[1] = remaining
           /\ counter'.color =
                IF remaining < 20 THEN "#ef4444"
                ELSE IF remaining < 50 THEN "#f59e0b"
                ELSE "var(--text-secondary)"]_vars

====
